---- MODULE Spec2Model ----
(***************************************************************************)
(* Checkpoint progression and hazard recovery of mega-fun-obby.            *)
(*                                                                         *)
(* Two variants of the server script are modelled side by side:            *)
(*   "extended"  src/index.ts          (conveyor belts, progress UI)       *)
(*   "base"      src/unnamed/part_000  (spherical touch detection)         *)
(*                                                                         *)
(* Every coordinate is an integer number of TENTHS of a grid unit, so the  *)
(* code's 0.5, 0.6, 1.5, 2.5, 5 and 50 are 5, 6, 15, 25, 50 and 500 here.  *)
(* A Euclidean distance d is kept as its square (in tenths squared):       *)
(* Math.sqrt is monotone, so d < t is d*d < t*t and d1 < d2 is             *)
(* d1*d1 < d2*d2.                                                          *)
(***************************************************************************)
EXTENDS Integers, Sequences, FiniteSets, TLC

VARIABLES
    variant,                   \* which of the two scripts runs
    worldMap,                  \* map.json blocks, in enumeration order
    built,                     \* the startServer callback has built the index
    checkpointBlockCoords,     \* extended: marker block coordinates, sorted
    checkpointBlocks,          \* spawn positions (block + (0,1,0)), sorted
    checkpointCoordToIndex,    \* extended: coordinate key -> sorted index
    yellowArrowBlocks,         \* extended: conveyor block coordinates
    connected,                 \* player is in the world (engine's view)
    joinpc,                    \* position of the player's JOINED_WORLD handler
    spawned,                   \* the player's entity is spawned in the world
    currentCheckpointIndex,    \* closure variable of the join handler
    currentCheckpointPosition, \* closure variable of the join handler
    position,                  \* playerEntity.position
    linearVelocity,            \* playerEntity.linearVelocity
    persisted,                 \* the durable per-player record
    out                        \* what the latest handler run asked of the engine

mapVars == <<variant, worldMap, built, checkpointBlockCoords, checkpointBlocks,
             checkpointCoordToIndex, yellowArrowBlocks>>
playerVars == <<connected, joinpc, spawned, currentCheckpointIndex,
                currentCheckpointPosition, position, linearVelocity, persisted>>
vars == <<mapVars, playerVars, out>>

Variants == {"extended", "base"}
Players == {"p1", "p2"}

----------------------------------------------------------------------------
(* Numbers and vectors *)

Tenths(n) == 10 * n
Abs(n) == IF n < 0 THEN -n ELSE n
Sq(n) == n * n
Vec(x, y, z) == [x |-> x, y |-> y, z |-> z]
ZeroVec == Vec(0, 0, 0)

\* dx*dx + dz*dz: the square of the horizontal distance both scripts use
Dist2D(a, b) == Sq(a.x - b.x) + Sq(a.z - b.z)
\* the square of the 3D distance of the base script's findCheckpointAtPosition
Dist3D(a, b) == Sq(a.x - b.x) + Sq(a.y - b.y) + Sq(a.z - b.z)

----------------------------------------------------------------------------
(* Block type ids: the two scripts read different map.json palettes *)

ORANGE_CONCRETE_BLOCK_ID(v) == IF v = "extended" THEN 6 ELSE 5
LAVA_BLOCK_ID(v) == IF v = "extended" THEN 5 ELSE 4
YELLOW_ARROW_BLOCK_ID == 7
FALL_THRESHOLD == 50

----------------------------------------------------------------------------
(* Map Index Builder *)

\* A map entry is [key |-> <<x, y, z>>, id |-> block type]: the key "x,y,z"
\* is kept as its three number tokens, in grid units.
\* coord.split(',').map(Number)
ParseCoord(key) == Vec(Tenths(key[1]), Tenths(key[2]), Tenths(key[3]))

\* `${blockCoord.x},${blockCoord.y},${blockCoord.z}`
CoordKey(c) == <<c.x \div 10, c.y \div 10, c.z \div 10>>

\* { x, y: y + 1, z }
SpawnOf(blockCoord) == Vec(blockCoord.x, blockCoord.y + Tenths(1), blockCoord.z)

RECURSIVE SelectEntries(_, _)
\* the entries of the map with block type id, in enumeration order
SelectEntries(entries, id) ==
    IF entries = <<>> THEN <<>>
    ELSE LET rest == SelectEntries(Tail(entries), id)
         IN  IF Head(entries).id = id THEN <<Head(entries)>> \o rest ELSE rest

\* checkpointPairs before the sort (extended); the base script pushes only
\* spawnPos, which is the one field its comparator reads
PairOf(entry) ==
    LET c == ParseCoord(entry.key)
    IN  [blockCoord |-> c, spawnPos |-> SpawnOf(c), coord |-> CoordKey(c)]

\* a mutant: lateral coordinate first, depth second
CompareXFirst(a, b) ==
    IF Abs(a.x - b.x) > 5 THEN a.x - b.x ELSE a.z - b.z

\* the comparator of both scripts: |a.z - b.z| > 0.5 ? a.z - b.z : a.x - b.x
Compare(a, b) ==
    IF Abs(a.z - b.z) > 5 THEN a.z - b.z ELSE a.x - b.x

\* extended compares the block coordinates, base the spawn positions
ComparePairs(v, a, b) ==
    IF v = "extended" THEN Compare(a.blockCoord, b.blockCoord)
    ELSE Compare(a.spawnPos, b.spawnPos)

RECURSIVE InsertPair(_, _, _)
\* e put into the sorted s behind every element that does not compare greater
InsertPair(v, s, e) ==
    IF s = <<>> THEN <<e>>
    ELSE IF ComparePairs(v, s[Len(s)], e) > 0
         THEN Append(InsertPair(v, SubSeq(s, 1, Len(s) - 1), e), s[Len(s)])
         ELSE Append(s, e)

RECURSIVE InsertPairFirst(_, _, _)
\* e put into the sorted s before every element that does not compare less
InsertPairFirst(v, s, e) ==
    IF s = <<>> THEN <<e>>
    ELSE IF ComparePairs(v, s[Len(s)], e) >= 0
         THEN Append(InsertPairFirst(v, SubSeq(s, 1, Len(s) - 1), e), s[Len(s)])
         ELSE Append(s, e)

RECURSIVE SortPairsUnstable(_, _)
\* a mutant: a sort that reverses the input order of equal elements
SortPairsUnstable(v, s) ==
    IF s = <<>> THEN <<>>
    ELSE InsertPairFirst(v, SortPairsUnstable(v, SubSeq(s, 1, Len(s) - 1)),
                         s[Len(s)])

RECURSIVE SortPairs(_, _)
\* Array.prototype.sort: stable, so equal elements keep their input order
SortPairs(v, s) ==
    IF s = <<>> THEN <<>>
    ELSE InsertPair(v, SortPairs(v, SubSeq(s, 1, Len(s) - 1)), s[Len(s)])

\* the sorted checkpointPairs of a map
BuildPairs(v, entries) ==
    LET markers == SelectEntries(entries, ORANGE_CONCRETE_BLOCK_ID(v))
    IN  SortPairs(v, [i \in 1..Len(markers) |-> PairOf(markers[i])])

BuildBlockCoords(v, entries) ==
    IF v = "extended"
    THEN LET ps == BuildPairs(v, entries)
         IN  [i \in 1..Len(ps) |-> ps[i].blockCoord]
    ELSE <<>>

BuildBlocks(v, entries) ==
    LET ps == BuildPairs(v, entries)
    IN  [i \in 1..Len(ps) |-> ps[i].spawnPos]

\* checkpointCoordToIndex.set(pair.coord, index), 0-based index;
\* kept as the set of its (key, index) pairs
BuildCoordToIndex(v, entries) ==
    IF v = "extended"
    THEN LET ps == BuildPairs(v, entries)
         IN  {<<ps[i].coord, i - 1>> : i \in 1..Len(ps)}
    ELSE {}

BuildArrows(v, entries) ==
    IF v = "extended"
    THEN LET as == SelectEntries(entries, YELLOW_ARROW_BLOCK_ID)
         IN  [i \in 1..Len(as) |-> ParseCoord(as[i].key)]
    ELSE <<>>

----------------------------------------------------------------------------
(* Spatial Matching *)

\* null: no checkpoint
NoCheckpoint == -1

\* distance < minDistance, minDistance being <<>> for Infinity, else <<d>>
LessThan(d, minDistance) == minDistance = <<>> \/ d < minDistance[1]

RECURSIVE FindIndexLoop(_, _, _, _, _)
FindIndexLoop(blocks, pos, i, closestIndex, minDistance) ==
    IF i >= Len(blocks) THEN closestIndex
    ELSE LET distance == Dist2D(blocks[i + 1], pos)
         IN  IF LessThan(distance, minDistance)
             THEN FindIndexLoop(blocks, pos, i + 1, i, <<distance>>)
             ELSE FindIndexLoop(blocks, pos, i + 1, closestIndex, minDistance)

\* findCheckpointIndex: the index of the spawn position nearest in x and z
\* (the first of them when several are), 0 when there is no checkpoint
FindCheckpointIndex(blocks, pos) == FindIndexLoop(blocks, pos, 0, 0, <<>>)

\* extended findCheckpointAtPosition: horizontal box and vertical band
InBoxAndBand(blockCoord, pos) ==
    /\ Abs(pos.x - (blockCoord.x + 5)) < 5
    /\ Abs(pos.z - (blockCoord.z + 5)) < 5
    /\ pos.y >= blockCoord.y
    /\ pos.y < (blockCoord.y + Tenths(1)) + Tenths(2)

\* base findCheckpointAtPosition: sphere of radius 1.5 about the spawn position
InSphere(checkpoint, pos) == Dist3D(checkpoint, pos) < Sq(15)

RECURSIVE FirstAtLoop(_, _, _, _)
FirstAtLoop(v, seq, pos, i) ==
    IF i >= Len(seq) THEN NoCheckpoint
    ELSE IF (IF v = "extended" THEN InBoxAndBand(seq[i + 1], pos)
                               ELSE InSphere(seq[i + 1], pos))
         THEN i
         ELSE FirstAtLoop(v, seq, pos, i + 1)

\* findCheckpointAtPosition of the variant, over its own array
FindCheckpointAtPosition(v, coords, blocks, pos) ==
    FirstAtLoop(v, IF v = "extended" THEN coords ELSE blocks, pos, 0)

RECURSIVE TouchLoop(_, _, _, _, _)
\* extended BLOCK_COLLISION: the nearest block centre within 1.5, in x and z
TouchLoop(coords, pos, i, touched, minDistance) ==
    IF i >= Len(coords) THEN touched
    ELSE LET distance == Sq(pos.x - (coords[i + 1].x + 5))
                         + Sq(pos.z - (coords[i + 1].z + 5))
         IN  IF distance < Sq(15) /\ LessThan(distance, minDistance)
             THEN TouchLoop(coords, pos, i + 1, i, <<distance>>)
             ELSE TouchLoop(coords, pos, i + 1, touched, minDistance)

\* a mutant: the touch resolves to the horizontally nearest checkpoint,
\* however far
TouchNearest(v, coords, blocks, pos) ==
    IF Len(blocks) = 0 THEN NoCheckpoint ELSE FindCheckpointIndex(blocks, pos)

\* touchedCheckpointIndex of the collision handler
TouchedCheckpointIndex(v, coords, blocks, pos) ==
    IF v = "extended" THEN TouchLoop(coords, pos, 0, NoCheckpoint, <<>>)
    ELSE FindCheckpointAtPosition(v, coords, blocks, pos)

----------------------------------------------------------------------------
(* Persistence Bridge: the record player.getPersistedData() resolves to *)

\* kind: "absent"     nothing stored
\*       "noPosition" a record without checkpointPosition
\*       "nonNumeric" checkpointPosition whose x, y or z is no number
\*       "valid"      checkpointPosition with numeric x, y, z (pos)
Record(kind, pos) == [kind |-> kind, pos |-> pos]
Absent == Record("absent", ZeroVec)
Saved(pos) == Record("valid", pos)

\* playerData && playerData.checkpointPosition
HasCheckpointPosition(data) == data.kind \in {"nonNumeric", "valid"}
\* typeof x === 'number' && typeof y === 'number' && typeof z === 'number'
HasNumericCoords(data) == data.kind = "valid"

\* { x: 0, y: 10, z: 0 }
FallbackSpawn == Vec(Tenths(0), Tenths(10), Tenths(0))

----------------------------------------------------------------------------
(* What a handler run asks of the engine *)

\* player, handler: whose handler ran; from: currentCheckpointIndex when it
\* started; id, started: the collision reported; pos: the position reported;
\* msgs: sendPlayerMessage texts; writes: setPersistedData arguments;
\* ui: ui.sendData payloads; rot: the targets setRotation or spawn faced
Out(p, h, from) ==
    [player |-> p, handler |-> h, from |-> from, id |-> 0, started |-> FALSE,
     pos |-> ZeroVec, msgs |-> <<>>, writes |-> <<>>, ui |-> <<>>, rot |-> <<>>]
NoOut == Out("none", "none", 0)

WelcomeMessages ==
    <<"Welcome to the game!", "Use WASD to move around & space to jump.",
      "Hold shift to sprint.", "Touch orange concrete blocks to set checkpoints!",
      "Press \\ to enter or exit debug view.">>
MsgSaved == "Checkpoint saved!"
MsgBack == "You cannot go back to a previous checkpoint!"
MsgOrder == "You must reach checkpoints in order!"
MsgLava == "You touched lava! Respawning at checkpoint..."
MsgFell == "You fell off the map! Respawning at checkpoint..."

\* a mutant: the percentage is taken over the number of stages
ProgressOverAll(blocks, idx) ==
    [type |-> "progress-update", stage |-> idx + 1,
     percentage |-> IF Len(blocks) = 0 THEN 0
                    ELSE (idx * 10000) \div Len(blocks)]

\* updateProgressUI's payload; the percentage is kept in hundredths of a
\* percent, rounded down
ProgressPayload(blocks, idx) ==
    LET totalStages == Len(blocks)
        raw == IF totalStages = 1 THEN 10000
               ELSE IF totalStages > 1 THEN (idx * 10000) \div (totalStages - 1)
               ELSE 0
        clamped == IF raw > 10000 THEN 10000 ELSE IF raw < 0 THEN 0 ELSE raw
    IN  [type |-> "progress-update", stage |-> idx + 1, percentage |-> clamped]

----------------------------------------------------------------------------
(* Facing target: the checkpoint whose direction setRotation is given, as a *)
(* sequence of at most one position (<<>>: no rotation is set)              *)

\* a mutant: the previous checkpoint is preferred to the next one
FacingPreviousFirst(blocks, idx) ==
    IF idx > 0 THEN <<blocks[idx]>>
    ELSE IF idx < Len(blocks) - 1 THEN <<blocks[idx + 2]>>
    ELSE <<>>

\* extended: the next checkpoint, else the previous one
FacingExtended(blocks, idx) ==
    IF idx < Len(blocks) - 1 THEN <<blocks[idx + 2]>>
    ELSE IF idx > 0 THEN <<blocks[idx]>>
    ELSE <<>>

RECURSIVE FacingBaseLoop(_, _, _, _, _)
\* base: the checkpoint nearest to from, those within 2 of the default spawn
\* skipped
FacingBaseLoop(blocks, from, i, nearest, minDistance) ==
    IF i > Len(blocks) THEN nearest
    ELSE IF Dist2D(blocks[i], FallbackSpawn) < Sq(20)
         THEN FacingBaseLoop(blocks, from, i + 1, nearest, minDistance)
         ELSE LET distance == Dist2D(blocks[i], from)
              IN  IF LessThan(distance, minDistance)
                  THEN FacingBaseLoop(blocks, from, i + 1, <<blocks[i]>>, <<distance>>)
                  ELSE FacingBaseLoop(blocks, from, i + 1, nearest, minDistance)

FacingTarget(v, blocks, idx, from) ==
    IF v = "extended" THEN FacingExtended(blocks, idx)
    ELSE FacingBaseLoop(blocks, from, 1, <<>>, <<>>)

----------------------------------------------------------------------------
(* PlayerEvent.JOINED_WORLD: the state the handler initialises after the    *)
(* load, as [pos |-> checkpointPosition, idx |-> currentCheckpointIndex]    *)

\* a mutant: a saved position exactly 5 from the nearest checkpoint is kept
JoinWithinInclusive(blocks, data) ==
    IF HasCheckpointPosition(data) /\ HasNumericCoords(data) /\ Len(blocks) > 0
    THEN LET savedIndex == FindCheckpointIndex(blocks, data.pos)
         IN  IF Dist2D(data.pos, blocks[savedIndex + 1]) <= Sq(Tenths(5))
             THEN [pos |-> blocks[savedIndex + 1], idx |-> savedIndex]
             ELSE [pos |-> blocks[1], idx |-> 0]
    ELSE IF Len(blocks) > 0 THEN [pos |-> blocks[1], idx |-> 0]
         ELSE [pos |-> FallbackSpawn, idx |-> 0]

JoinExtended(blocks, data) ==
    IF HasCheckpointPosition(data) /\ Len(blocks) > 0
    THEN IF HasNumericCoords(data)
         THEN LET savedIndex == FindCheckpointIndex(blocks, data.pos)
                  savedCheckpointPos == blocks[savedIndex + 1]
                  distance == Dist2D(data.pos, savedCheckpointPos)
              IN  IF distance < Sq(Tenths(5)) /\ savedIndex < Len(blocks)
                  THEN [pos |-> savedCheckpointPos, idx |-> savedIndex]
                  ELSE [pos |-> blocks[1], idx |-> 0]
         ELSE [pos |-> blocks[1], idx |-> 0]
    ELSE IF Len(blocks) > 0 THEN [pos |-> blocks[1], idx |-> 0]
         ELSE [pos |-> FallbackSpawn, idx |-> 0]

JoinBase(blocks, data) ==
    LET checkpointPosition ==
            IF HasCheckpointPosition(data) /\ HasNumericCoords(data)
            THEN data.pos ELSE FallbackSpawn
        found == FindCheckpointIndex(blocks, checkpointPosition)
        maxIdx == IF Len(blocks) - 1 > 0 THEN Len(blocks) - 1 ELSE 0
    IN  [pos |-> checkpointPosition,
         idx |-> IF found >= Len(blocks) THEN maxIdx ELSE found]

\* a mutant: the coordinates of a stored checkpointPosition are used without
\* the typeof validation
JoinTrusting(v, blocks, data) ==
    LET trusted == IF HasCheckpointPosition(data) THEN Saved(data.pos) ELSE data
    IN  IF v = "extended" THEN JoinExtended(blocks, trusted)
        ELSE JoinBase(blocks, trusted)

JoinState(v, blocks, data) ==
    IF v = "extended" THEN JoinExtended(blocks, data) ELSE JoinBase(blocks, data)

----------------------------------------------------------------------------
(* Hazard & Recovery Controller: the handlers' transition functions *)

\* a mutant: any checkpoint ahead is accepted, not only the next one
TouchAnyAhead(blocks, idx, ccp, touched) ==
    IF touched >= idx
    THEN [idx |-> touched, pos |-> blocks[touched + 1],
          writes |-> <<[checkpointPosition |-> blocks[touched + 1]]>>,
          msgs |-> <<MsgSaved>>]
    ELSE [idx |-> idx, pos |-> ccp, writes |-> <<>>, msgs |-> <<MsgBack>>]

\* a mutant: the advance forgets to move currentCheckpointPosition
TouchStalePosition(blocks, idx, ccp, touched) ==
    IF touched = idx \/ touched = idx + 1
    THEN [idx |-> touched, pos |-> ccp,
          writes |-> <<[checkpointPosition |-> ccp]>>, msgs |-> <<MsgSaved>>]
    ELSE [idx |-> idx, pos |-> ccp, writes |-> <<>>,
          msgs |-> <<IF touched < idx THEN MsgBack ELSE MsgOrder>>]

\* a mutant: a rejected touch is saved all the same
TouchSavesRejected(blocks, idx, ccp, touched) ==
    IF touched = idx \/ touched = idx + 1
    THEN [idx |-> touched, pos |-> blocks[touched + 1],
          writes |-> <<[checkpointPosition |-> blocks[touched + 1]]>>,
          msgs |-> <<MsgSaved>>]
    ELSE [idx |-> idx, pos |-> ccp,
          writes |-> <<[checkpointPosition |-> blocks[touched + 1]]>>,
          msgs |-> <<IF touched < idx THEN MsgBack ELSE MsgOrder>>]

\* a mutant: the refresh only notifies, it does not save
TouchRefreshNoSave(blocks, idx, ccp, touched) ==
    IF touched = idx
    THEN [idx |-> idx, pos |-> ccp, writes |-> <<>>, msgs |-> <<MsgSaved>>]
    ELSE IF touched = idx + 1
    THEN [idx |-> touched, pos |-> blocks[touched + 1],
          writes |-> <<[checkpointPosition |-> blocks[touched + 1]]>>,
          msgs |-> <<MsgSaved>>]
    ELSE [idx |-> idx, pos |-> ccp, writes |-> <<>>,
          msgs |-> <<IF touched < idx THEN MsgBack ELSE MsgOrder>>]

\* the branches of the collision handler on a resolved touch: the new
\* currentCheckpointIndex and currentCheckpointPosition, the setPersistedData
\* calls and the messages
TouchCheckpoint(blocks, idx, ccp, touched) ==
    IF touched = idx                              \* isCurrentCheckpoint
    THEN [idx |-> idx, pos |-> blocks[touched + 1],
          writes |-> <<[checkpointPosition |-> blocks[touched + 1]]>>,
          msgs |-> <<MsgSaved>>]
    ELSE IF touched = idx + 1                     \* isNextCheckpoint
    THEN [idx |-> touched, pos |-> blocks[touched + 1],
          writes |-> <<[checkpointPosition |-> blocks[touched + 1]]>>,
          msgs |-> <<MsgSaved>>]
    ELSE IF touched < idx
    THEN [idx |-> idx, pos |-> ccp, writes |-> <<>>, msgs |-> <<MsgBack>>]
    ELSE [idx |-> idx, pos |-> ccp, writes |-> <<>>, msgs |-> <<MsgOrder>>]

\* a mutant: at or below the threshold
HasFallenInclusive(pos, ccp) == pos.y <= ccp.y - Tenths(FALL_THRESHOLD)

\* position.y < currentCheckpointPosition.y - FALL_THRESHOLD
\* a mutant: the threshold is added, not subtracted
HasFallenSignError(pos, ccp) == pos.y < ccp.y + Tenths(FALL_THRESHOLD)

HasFallen(pos, ccp) == pos.y < ccp.y - Tenths(FALL_THRESHOLD)

\* a mutant: the respawn keeps the velocity of the fall
RespawnKeepsVelocity(ccp, vel) == [position |-> ccp, linearVelocity |-> vel]

\* respawnAtCheckpoint: setPosition(currentCheckpointPosition) and
\* setLinearVelocity({ x: 0, y: 0, z: 0 })
Respawn(ccp, vel) == [position |-> ccp, linearVelocity |-> ZeroVec]

\* the player is on top of a yellow arrow block
OnConveyorBelt(arrows, pos) ==
    \E i \in 1..Len(arrows) :
        /\ Abs(pos.x - (arrows[i].x + 5)) < 6
        /\ Abs(pos.z - (arrows[i].z + 5)) < 6
        /\ pos.y - arrows[i].y >= 5
        /\ pos.y - arrows[i].y < 25

\* The two applyImpulse calls of the conveyor. Velocities are in hundredths
\* of a unit per second and an impulse changes the velocity of the body at
\* once, by impulse / mass; the mass is taken as 1.
\* conveyorDirection = (0, 0, 1), conveyorSpeed = 2.0, frictionStrength = 0.4
ConveyorVelocity(vel) ==
    LET pushed == Vec(vel.x + 0, vel.y, vel.z + 20)
        velocityAgainstConveyor == vel.x * 0 + vel.z * (-1)
    IN  IF velocityAgainstConveyor > 10
        THEN Vec(pushed.x + ((0 - vel.x) * 4) \div 100, pushed.y,
                 pushed.z + ((0 - vel.z) * 4) \div 100)
        ELSE pushed

----------------------------------------------------------------------------
(* Bounded inputs *)

\* most entries of a map
MaxEntries == 3

\* The blocks a game map is drawn from, in file order: three markers in a
\* row (the first two adjacent), one stacked above the first, whose spawn
\* position is at y = 10, and a conveyor block far below the course.
GameFile(v) ==
    <<[key |-> <<0, 0, 0>>, id |-> ORANGE_CONCRETE_BLOCK_ID(v)],
      [key |-> <<0, 0, 1>>, id |-> ORANGE_CONCRETE_BLOCK_ID(v)],
      [key |-> <<0, 0, 3>>, id |-> ORANGE_CONCRETE_BLOCK_ID(v)],
      [key |-> <<0, 9, 0>>, id |-> ORANGE_CONCRETE_BLOCK_ID(v)],
      [key |-> <<0, -45, 3>>, id |-> YELLOW_ARROW_BLOCK_ID]>>

RECURSIVE Pick(_, _, _)
\* the entries of file at the places in idxs, from place i on
Pick(file, idxs, i) ==
    IF i > Len(file) THEN <<>>
    ELSE IF i \in idxs THEN <<file[i]>> \o Pick(file, idxs, i + 1)
         ELSE Pick(file, idxs, i + 1)

\* the maps of at most MaxEntries blocks of the file
GameMaps(v) ==
    {Pick(GameFile(v), idxs, 1) :
        idxs \in {t \in SUBSET (1..Len(GameFile(v))) : Cardinality(t) <= MaxEntries}}

\* the record found in the store at the first join: nothing (every later
\* join finds what the sessions before it have saved)
InitRecords == {Absent}

\* where the simulation may leave the entity at rest: on a spawn position, on
\* the middle of a marker block's top, on the fallback spawn
RestingPositions(blocks) ==
    UNION {{blocks[i], Vec(blocks[i].x + 5, blocks[i].y, blocks[i].z + 5)}
           : i \in 1..Len(blocks)}
    \cup {FallbackSpawn}

\* where it may be on the move: on top of a conveyor block, and 40 above and
\* 20, 50 and 50.1 below the current checkpoint position ccp
MovingPositions(arrows, ccp) ==
    {Vec(arrows[i].x + 5, arrows[i].y + Tenths(1), arrows[i].z + 5)
           : i \in 1..Len(arrows)}
    \cup {Vec(ccp.x, ccp.y + Tenths(40), ccp.z),
          Vec(ccp.x, ccp.y - Tenths(20), ccp.z),
          Vec(ccp.x, ccp.y - Tenths(50), ccp.z),
          Vec(ccp.x, ccp.y - Tenths(50) - 1, ccp.z)}

\* the velocity of a move: walking against the conveyor
MovingVelocity == Vec(0, 0, -50)

\* the position and velocity the simulation reports
Moves(blocks, arrows, ccp) ==
    {[pos |-> q, vel |-> ZeroVec] : q \in RestingPositions(blocks)}
    \cup {[pos |-> q, vel |-> w] :
            q \in MovingPositions(arrows, ccp), w \in {ZeroVec, MovingVelocity}}

\* the block types a collision may be with
BlockTypeIds == {4, 5, 6}

\* the players that take part
ActivePlayers == {"p1"}

----------------------------------------------------------------------------
(* Initial state: the startServer callback has run *)

InitPlayers ==
    /\ connected = [p \in Players |-> FALSE]
    /\ joinpc = [p \in Players |-> "idle"]
    /\ spawned = [p \in Players |-> FALSE]
    /\ currentCheckpointIndex = [p \in Players |-> 0]
    /\ currentCheckpointPosition = [p \in Players |-> ZeroVec]
    /\ position = [p \in Players |-> ZeroVec]
    /\ linearVelocity = [p \in Players |-> ZeroVec]
    /\ out = NoOut

Init ==
    /\ variant \in Variants
    /\ worldMap \in GameMaps(variant)
    /\ built = TRUE
    /\ checkpointBlockCoords = BuildBlockCoords(variant, worldMap)
    /\ checkpointBlocks = BuildBlocks(variant, worldMap)
    /\ checkpointCoordToIndex = BuildCoordToIndex(variant, worldMap)
    /\ yellowArrowBlocks = BuildArrows(variant, worldMap)
    /\ InitPlayers
    /\ persisted \in {f \in [Players -> InitRecords] :
                        \A p \in Players \ ActivePlayers : f[p] = Absent}

----------------------------------------------------------------------------
(* Actions *)

\* a mutant: the entity is spawned, and its handlers wired, before the load
PlayerJoinedSpawning(p) ==
    /\ ~connected[p]
    /\ joinpc[p] = "idle"
    /\ connected' = [connected EXCEPT ![p] = TRUE]
    /\ joinpc' = [joinpc EXCEPT ![p] = "awaiting"]
    /\ spawned' = [spawned EXCEPT ![p] = TRUE]
    /\ out' = Out(p, "joined", 0)
    /\ UNCHANGED <<mapVars, currentCheckpointIndex,
                   currentCheckpointPosition, position, linearVelocity, persisted>>

\* world.on(PlayerEvent.JOINED_WORLD): the handler starts and awaits
\* player.getPersistedData()
PlayerJoined(p) ==
    /\ ~connected[p]
    /\ joinpc[p] = "idle"
    /\ connected' = [connected EXCEPT ![p] = TRUE]
    /\ joinpc' = [joinpc EXCEPT ![p] = "awaiting"]
    /\ out' = Out(p, "joined", 0)
    /\ UNCHANGED <<mapVars, spawned, currentCheckpointIndex,
                   currentCheckpointPosition, position, linearVelocity, persisted>>

\* the load resolves: the rest of the join handler runs in one piece
LoadComplete(p) ==
    /\ joinpc[p] = "awaiting"
    /\ \E js \in {JoinState(variant, checkpointBlocks, persisted[p])} :
           /\ currentCheckpointIndex' = [currentCheckpointIndex EXCEPT ![p] = js.idx]
           /\ currentCheckpointPosition' =
                  [currentCheckpointPosition EXCEPT ![p] = js.pos]
           /\ position' = [position EXCEPT ![p] = js.pos]
           /\ linearVelocity' = [linearVelocity EXCEPT ![p] = ZeroVec]
           /\ out' = [Out(p, "load", js.idx) EXCEPT
                         !.msgs = WelcomeMessages,
                         !.rot = FacingTarget(variant, checkpointBlocks,
                                              js.idx, js.pos)]
    /\ spawned' = [spawned EXCEPT ![p] = TRUE]
    /\ joinpc' = [joinpc EXCEPT ![p] =
                     IF variant = "extended" THEN "timer" ELSE "idle"]
    /\ UNCHANGED <<mapVars, connected, persisted>>

\* extended: setTimeout(() => updateProgressUI(), 500) fires
ProgressTimer(p) ==
    /\ joinpc[p] = "timer"
    /\ joinpc' = [joinpc EXCEPT ![p] = "idle"]
    /\ out' = [Out(p, "timer", currentCheckpointIndex[p]) EXCEPT
                  !.ui = <<ProgressPayload(checkpointBlocks,
                                           currentCheckpointIndex[p])>>]
    /\ UNCHANGED <<mapVars, connected, spawned, currentCheckpointIndex,
                   currentCheckpointPosition, position, linearVelocity, persisted>>

\* a mutant: every player entity of the world is despawned
PlayerLeftDespawnsAll(p) ==
    /\ connected[p]
    /\ connected' = [connected EXCEPT ![p] = FALSE]
    /\ spawned' = [q \in Players |-> FALSE]
    /\ out' = Out(p, "left", currentCheckpointIndex[p])
    /\ UNCHANGED <<mapVars, joinpc, currentCheckpointIndex,
                   currentCheckpointPosition, position, linearVelocity, persisted>>

\* world.on(PlayerEvent.LEFT_WORLD): every entity of the player is despawned
PlayerLeft(p) ==
    /\ connected[p]
    /\ connected' = [connected EXCEPT ![p] = FALSE]
    /\ spawned' = [spawned EXCEPT ![p] = FALSE]
    /\ out' = Out(p, "left", currentCheckpointIndex[p])
    /\ UNCHANGED <<mapVars, joinpc, currentCheckpointIndex,
                   currentCheckpointPosition, position, linearVelocity, persisted>>

\* a mutant: a write the store does not take aborts the handler and rolls
\* the checkpoint back
BlockCollisionRollback(p, id, started, writeOk) ==
    /\ spawned[p]
    /\ \E touched \in
            {IF id = ORANGE_CONCRETE_BLOCK_ID(variant) /\ started
             THEN TouchedCheckpointIndex(variant, checkpointBlockCoords,
                                         checkpointBlocks, position[p])
             ELSE NoCheckpoint} :
       \E t \in
            {IF touched # NoCheckpoint
             THEN TouchCheckpoint(checkpointBlocks, currentCheckpointIndex[p],
                                  currentCheckpointPosition[p], touched)
             ELSE [idx |-> currentCheckpointIndex[p],
                   pos |-> currentCheckpointPosition[p],
                   writes |-> <<>>, msgs |-> <<>>]} :
       \E commit \in {t.writes = <<>> \/ writeOk} :
       \E lava \in {id = LAVA_BLOCK_ID(variant) /\ started} :
           /\ currentCheckpointIndex' =
                  [currentCheckpointIndex EXCEPT
                      ![p] = IF commit THEN t.idx ELSE currentCheckpointIndex[p]]
           /\ currentCheckpointPosition' =
                  [currentCheckpointPosition EXCEPT
                      ![p] = IF commit THEN t.pos ELSE currentCheckpointPosition[p]]
           /\ persisted' =
                  IF t.writes # <<>> /\ writeOk
                  THEN [persisted EXCEPT
                           ![p] = Saved(t.writes[Len(t.writes)].checkpointPosition)]
                  ELSE persisted
           /\ position' =
                  [position EXCEPT
                      ![p] = IF lava THEN currentCheckpointPosition[p] ELSE position[p]]
           /\ linearVelocity' =
                  [linearVelocity EXCEPT
                      ![p] = IF lava THEN ZeroVec ELSE linearVelocity[p]]
           /\ out' = [Out(p, "collision", currentCheckpointIndex[p]) EXCEPT
                         !.id = id,
                         !.started = started,
                         !.msgs = (IF commit THEN t.msgs ELSE <<>>)
                                  \o (IF lava THEN <<MsgLava>> ELSE <<>>),
                         !.writes = t.writes]
    /\ UNCHANGED <<mapVars, connected, joinpc, spawned>>

\* playerEntity.on(EntityEvent.BLOCK_COLLISION): a collision with a block of
\* type id begins (started) or ends; writeOk: the store takes the write
BlockCollision(p, id, started, writeOk) ==
    /\ spawned[p]
    /\ \E touched \in
            {IF id = ORANGE_CONCRETE_BLOCK_ID(variant) /\ started
             THEN TouchedCheckpointIndex(variant, checkpointBlockCoords,
                                         checkpointBlocks, position[p])
             ELSE NoCheckpoint} :
       \E t \in
            {IF touched # NoCheckpoint
             THEN TouchCheckpoint(checkpointBlocks, currentCheckpointIndex[p],
                                  currentCheckpointPosition[p], touched)
             ELSE [idx |-> currentCheckpointIndex[p],
                   pos |-> currentCheckpointPosition[p],
                   writes |-> <<>>, msgs |-> <<>>]} :
       \E lava \in {id = LAVA_BLOCK_ID(variant) /\ started} :
       \E r \in
            {IF lava THEN Respawn(t.pos, linearVelocity[p])
             ELSE [position |-> position[p],
                   linearVelocity |-> linearVelocity[p]]} :
           /\ currentCheckpointIndex' = [currentCheckpointIndex EXCEPT ![p] = t.idx]
           /\ currentCheckpointPosition' =
                  [currentCheckpointPosition EXCEPT ![p] = t.pos]
           /\ persisted' =
                  IF t.writes # <<>> /\ writeOk
                  THEN [persisted EXCEPT
                           ![p] = Saved(t.writes[Len(t.writes)].checkpointPosition)]
                  ELSE persisted
           /\ position' = [position EXCEPT ![p] = r.position]
           /\ linearVelocity' = [linearVelocity EXCEPT ![p] = r.linearVelocity]
           /\ out' = [Out(p, "collision", currentCheckpointIndex[p]) EXCEPT
                         !.id = id,
                         !.started = started,
                         !.msgs = t.msgs \o (IF lava THEN <<MsgLava>> ELSE <<>>),
                         !.writes = t.writes,
                         !.ui = IF variant = "extended" /\ t.writes # <<>>
                                THEN <<ProgressPayload(checkpointBlocks, t.idx)>>
                                ELSE <<>>,
                         !.rot = IF lava
                                 THEN FacingTarget(variant, checkpointBlocks,
                                                   t.idx, t.pos)
                                 ELSE <<>>]
    /\ UNCHANGED <<mapVars, connected, joinpc, spawned>>

\* playerEntity.on(EntityEvent.UPDATE_POSITION): the simulation has moved
\* the entity to pos with velocity vel and reports it
UpdatePosition(p, pos, vel) ==
    /\ spawned[p]
    /\ \E fell \in {HasFallen(pos, currentCheckpointPosition[p])} :
       \E r \in
            {IF fell THEN Respawn(currentCheckpointPosition[p], vel)
             ELSE [position |-> pos, linearVelocity |-> vel]} :
       \E conveyor \in
            {variant = "extended" /\ OnConveyorBelt(yellowArrowBlocks, pos)} :
           /\ position' = [position EXCEPT ![p] = r.position]
           /\ linearVelocity' =
                  [linearVelocity EXCEPT
                      ![p] = IF conveyor THEN ConveyorVelocity(r.linearVelocity)
                             ELSE r.linearVelocity]
           /\ out' = [Out(p, "update", currentCheckpointIndex[p]) EXCEPT
                         !.pos = pos,
                         !.msgs = IF fell THEN <<MsgFell>> ELSE <<>>,
                         !.rot = IF fell
                                 THEN FacingTarget(variant, checkpointBlocks,
                                                   currentCheckpointIndex[p],
                                                   currentCheckpointPosition[p])
                                 ELSE <<>>]
    /\ UNCHANGED <<mapVars, connected, joinpc, spawned, currentCheckpointIndex,
                   currentCheckpointPosition, persisted>>

Next ==
    \E p \in ActivePlayers :
        \/ PlayerJoined(p)
        \/ LoadComplete(p)
        \/ ProgressTimer(p)
        \/ PlayerLeft(p)
        \/ \E id \in BlockTypeIds, started \in BOOLEAN, writeOk \in BOOLEAN :
               BlockCollision(p, id, started, writeOk)
        \/ \E m \in Moves(checkpointBlocks, yellowArrowBlocks,
                          currentCheckpointPosition[p]) :
               UpdatePosition(p, m.pos, m.vel)

Spec == Init /\ [][Next]_vars

----------------------------------------------------------------------------
(* The Map Index Builder on its own: every enumeration of small maps *)

\* most entries of a map given to the builder
MaxSortEntries == 3

\* marker coordinates: two lateral places, two heights, two depths
SortKeys == {<<x, y, z>> : x \in {0, 3}, y \in {0, 1}, z \in {0, 5}}

SortEntries(v) ==
    {[key |-> k, id |-> i] :
        k \in SortKeys, i \in {ORANGE_CONCRETE_BLOCK_ID(v), YELLOW_ARROW_BLOCK_ID}}

\* an object has each key once
DistinctKeys(m) == \A i, j \in 1..Len(m) : i # j => m[i].key # m[j].key

SortMaps(v) ==
    {m \in UNION {[1..n -> SortEntries(v)] : n \in 0..MaxSortEntries} :
        DistinctKeys(m)}

InitSort ==
    /\ variant \in Variants
    /\ worldMap \in SortMaps(variant)
    /\ built = FALSE
    /\ checkpointBlockCoords = <<>>
    /\ checkpointBlocks = <<>>
    /\ checkpointCoordToIndex = {}
    /\ yellowArrowBlocks = <<>>
    /\ InitPlayers
    /\ persisted = [p \in Players |-> Absent]

\* the parse, sort and rebuild at the top of the startServer callback
BuildIndex ==
    /\ ~built
    /\ built' = TRUE
    /\ checkpointBlockCoords' = BuildBlockCoords(variant, worldMap)
    /\ checkpointBlocks' = BuildBlocks(variant, worldMap)
    /\ checkpointCoordToIndex' = BuildCoordToIndex(variant, worldMap)
    /\ yellowArrowBlocks' = BuildArrows(variant, worldMap)
    /\ UNCHANGED <<variant, worldMap, playerVars, out>>

NextSort == BuildIndex

SpecSort == InitSort /\ [][NextSort]_vars

----------------------------------------------------------------------------
(* Joining with a record of an earlier session in the store *)

\* the positions a stored record may hold: a spawn position, places 4.9 and
\* 5 beside one, and a place that belongs to no map
SavedPositions(blocks) ==
    UNION {{blocks[i], Vec(blocks[i].x + 49, blocks[i].y, blocks[i].z),
            Vec(blocks[i].x + 50, blocks[i].y, blocks[i].z)}
           : i \in 1..Len(blocks)}
    \cup {Vec(30, 20, 30)}

\* the records the store may hold when a player joins; a record whose
\* coordinates are not all numbers carries what is left of them in pos
JoinRecords(blocks) ==
    {Absent, Record("noPosition", ZeroVec)}
    \cup {Record(k, q) : k \in {"nonNumeric", "valid"}, q \in SavedPositions(blocks)}

InitJoin ==
    /\ variant \in Variants
    /\ worldMap \in GameMaps(variant)
    /\ built = TRUE
    /\ checkpointBlockCoords = BuildBlockCoords(variant, worldMap)
    /\ checkpointBlocks = BuildBlocks(variant, worldMap)
    /\ checkpointCoordToIndex = BuildCoordToIndex(variant, worldMap)
    /\ yellowArrowBlocks = BuildArrows(variant, worldMap)
    /\ InitPlayers
    /\ persisted \in {f \in [Players -> JoinRecords(checkpointBlocks)] :
                        \A p \in Players \ ActivePlayers : f[p] = Absent}

\* joining and leaving only
NextJoin ==
    \E p \in ActivePlayers :
        \/ PlayerJoined(p)
        \/ LoadComplete(p)
        \/ ProgressTimer(p)
        \/ PlayerLeft(p)

SpecJoin == InitJoin /\ [][NextJoin]_vars

----------------------------------------------------------------------------
(* The progress display on its own: a player who has joined a course of up *)
(* to MaxStages checkpoints at any of them, the display timer pending      *)

\* most checkpoints of a course
MaxStages == 10

\* a straight course of n markers, two apart
Course(n) ==
    [i \in 1..n |-> [key |-> <<0, 0, 2 * (i - 1)>>,
                     id |-> ORANGE_CONCRETE_BLOCK_ID("extended")]]

InitProgress ==
    /\ variant = "extended"
    /\ worldMap \in {Course(n) : n \in 0..MaxStages}
    /\ built = TRUE
    /\ checkpointBlockCoords = BuildBlockCoords(variant, worldMap)
    /\ checkpointBlocks = BuildBlocks(variant, worldMap)
    /\ checkpointCoordToIndex = BuildCoordToIndex(variant, worldMap)
    /\ yellowArrowBlocks = BuildArrows(variant, worldMap)
    /\ \E i \in 0..MaxStages :
          \E js \in {JoinState(variant, checkpointBlocks,
                                IF i < Len(checkpointBlocks)
                                THEN Saved(checkpointBlocks[i + 1]) ELSE Absent)} :
              /\ connected = [p \in Players |-> p \in ActivePlayers]
              /\ joinpc = [p \in Players |->
                              IF p \in ActivePlayers THEN "timer" ELSE "idle"]
              /\ spawned = [p \in Players |-> p \in ActivePlayers]
              /\ currentCheckpointIndex =
                     [p \in Players |-> IF p \in ActivePlayers THEN js.idx ELSE 0]
              /\ currentCheckpointPosition =
                     [p \in Players |-> IF p \in ActivePlayers THEN js.pos
                                        ELSE ZeroVec]
              /\ position = currentCheckpointPosition
              /\ linearVelocity = [p \in Players |-> ZeroVec]
              /\ persisted =
                     [p \in Players |->
                         IF p \in ActivePlayers /\ i < Len(checkpointBlocks)
                         THEN Saved(checkpointBlocks[i + 1]) ELSE Absent]
              /\ out = [Out("p1", "load", js.idx) EXCEPT
                           !.msgs = WelcomeMessages,
                           !.rot = FacingTarget(variant, checkpointBlocks,
                                                js.idx, js.pos)]

NextProgress == \E p \in ActivePlayers : ProgressTimer(p)

SpecProgress == InitProgress /\ [][NextProgress]_vars

----------------------------------------------------------------------------
(* findCheckpointAtPosition of the extended variant on its own *)

\* the positions asked about: over the middle, a corner, a place just
\* inside an edge and one on the edge of each marker block, from just below
\* the block's floor to two above its top
ProbePositions(coords) ==
    UNION {{Vec(coords[i].x + dx, coords[i].y + dy, coords[i].z + 5)
              : dx \in {0, 1, 5, 10}, dy \in {-1, 0, 5, 10, 29, 30}}
           : i \in 1..Len(coords)}
    \cup {FallbackSpawn}

InitMatch ==
    /\ variant = "extended"
    /\ worldMap \in GameMaps(variant)
    /\ built = TRUE
    /\ checkpointBlockCoords = BuildBlockCoords(variant, worldMap)
    /\ checkpointBlocks = BuildBlocks(variant, worldMap)
    /\ checkpointCoordToIndex = BuildCoordToIndex(variant, worldMap)
    /\ yellowArrowBlocks = BuildArrows(variant, worldMap)
    /\ InitPlayers
    /\ persisted = [p \in Players |-> Absent]

\* findCheckpointAtPosition(pos) is called; out holds the argument and the
\* value returned
FindAtPosition(pos) ==
    /\ out' = [handler |-> "findCheckpointAtPosition", player |-> "none",
               pos |-> pos,
               result |-> FindCheckpointAtPosition(variant, checkpointBlockCoords,
                                                   checkpointBlocks, pos)]
    /\ UNCHANGED <<mapVars, playerVars>>

NextMatch == \E pos \in ProbePositions(checkpointBlockCoords) : FindAtPosition(pos)

SpecMatch == InitMatch /\ [][NextMatch]_vars

----------------------------------------------------------------------------
(* Two players on one course: two markers apart from one another, each     *)
(* player's entity reported on a spawn position or fallen below its         *)
(* checkpoint                                                               *)

TwoMap(v) ==
    <<[key |-> <<0, 0, 0>>, id |-> ORANGE_CONCRETE_BLOCK_ID(v)],
      [key |-> <<0, 0, 3>>, id |-> ORANGE_CONCRETE_BLOCK_ID(v)]>>

\* on a spawn position, or 50.1 below the current checkpoint position ccp
TwoPositions(blocks, ccp) ==
    {blocks[i] : i \in 1..Len(blocks)}
    \cup {Vec(ccp.x, ccp.y - Tenths(FALL_THRESHOLD) - 1, ccp.z)}

InitTwo ==
    /\ variant \in Variants
    /\ worldMap = TwoMap(variant)
    /\ built = TRUE
    /\ checkpointBlockCoords = BuildBlockCoords(variant, worldMap)
    /\ checkpointBlocks = BuildBlocks(variant, worldMap)
    /\ checkpointCoordToIndex = BuildCoordToIndex(variant, worldMap)
    /\ yellowArrowBlocks = BuildArrows(variant, worldMap)
    /\ InitPlayers
    /\ persisted = [p \in Players |-> Absent]

NextTwo ==
    \E p \in Players :
        \/ PlayerJoined(p)
        \/ LoadComplete(p)
        \/ ProgressTimer(p)
        \/ PlayerLeft(p)
        \/ \E id \in BlockTypeIds, started \in BOOLEAN, writeOk \in BOOLEAN :
               BlockCollision(p, id, started, writeOk)
        \/ \E pos \in TwoPositions(checkpointBlocks,
                                    currentCheckpointPosition[p]) :
               UpdatePosition(p, pos, ZeroVec)

SpecTwo == InitTwo /\ [][NextTwo]_vars

----------------------------------------------------------------------------
(* Properties *)

Spawn(x, y, z) == SpawnOf(Vec(Tenths(x), Tenths(y), Tenths(z)))
Marker(v, x, y, z) == [key |-> <<x, y, z>>, id |-> ORANGE_CONCRETE_BLOCK_ID(v)]

\* the spawn position of checkpoint j (0-based)
SpawnAt(j) == checkpointBlocks[j + 1]

\* the checkpoint the player's touch resolves to in the state before a step
Resolved(p) ==
    TouchedCheckpointIndex(variant, checkpointBlockCoords, checkpointBlocks,
                           position[p])

\* the step is a run of p's collision handler on a begun marker collision
TouchStep(p) ==
    /\ out'.handler = "collision"
    /\ out'.player = p
    /\ out'.id = ORANGE_CONCRETE_BLOCK_ID(variant)
    /\ out'.started
    /\ Resolved(p) # NoCheckpoint

\* C1: a block-collision or position-update event leaves
\* currentCheckpointIndex unchanged or increases it by exactly 1.
C1_IndexStepsByOne ==
    [][\A p \in Players :
          (out'.handler \in {"collision", "update"} /\ out'.player = p)
          => currentCheckpointIndex'[p] \in
                {currentCheckpointIndex[p], currentCheckpointIndex[p] + 1}]_vars

\* a player at index 2 whose touch of an earlier checkpoint was rejected,
\* and a run that advanced twice before
C1_Witness ==
    /\ out.handler = "collision"
    /\ out.msgs = <<MsgBack>>
    /\ currentCheckpointIndex[out.player] = 2

\* C2: a touch that resolves to checkpoint j = i + 1 sets the index to j and
\* the checkpoint position to j's spawn position, issues exactly one write
\* of that spawn position and sends 'Checkpoint saved!'.
C2_Advance ==
    [][\A p \in Players :
          (TouchStep(p) /\ Resolved(p) = currentCheckpointIndex[p] + 1)
          => /\ currentCheckpointIndex'[p] = Resolved(p)
             /\ currentCheckpointPosition'[p] = SpawnAt(Resolved(p))
             /\ variant = "extended" =>
                   SpawnAt(Resolved(p)) = SpawnOf(checkpointBlockCoords[Resolved(p) + 1])
             /\ out'.writes = <<[checkpointPosition |-> SpawnAt(Resolved(p))]>>
             /\ out'.msgs = <<MsgSaved>>]_vars

\* the player at index 1 of 3 has touched checkpoint 2
C2_Witness ==
    /\ out.handler = "collision"
    /\ Len(checkpointBlocks) = 3
    /\ out.from = 1
    /\ currentCheckpointIndex[out.player] = 2
    /\ out.writes = <<[checkpointPosition |-> SpawnAt(2)]>>

\* C3: a touch that resolves to j < i or j > i + 1 changes neither the
\* index, the checkpoint position nor the persisted record and issues no
\* write; 'cannot go back' is sent exactly when j < i, 'must reach
\* checkpoints in order' exactly when j > i + 1.
C3_RejectedTouch ==
    [][\A p \in Players :
          (/\ TouchStep(p)
           /\ \/ Resolved(p) < currentCheckpointIndex[p]
              \/ Resolved(p) > currentCheckpointIndex[p] + 1)
          => /\ currentCheckpointIndex'[p] = currentCheckpointIndex[p]
             /\ currentCheckpointPosition'[p] = currentCheckpointPosition[p]
             /\ persisted' = persisted
             /\ out'.writes = <<>>
             /\ Len(out'.msgs) = 1
             /\ out'.msgs[1] = MsgBack <=> Resolved(p) < currentCheckpointIndex[p]
             /\ out'.msgs[1] = MsgOrder <=> Resolved(p) > currentCheckpointIndex[p] + 1
      ]_vars

\* the player at index 1 of 3 has touched checkpoint 0 and was turned back
C3_Witness ==
    /\ out.handler = "collision"
    /\ Len(checkpointBlocks) = 3
    /\ out.from = 1
    /\ currentCheckpointIndex[out.player] = 1
    /\ out.msgs = <<MsgBack>>
    /\ out.writes = <<>>

\* C4: a touch that resolves to j = i keeps the index, sets the checkpoint
\* position to j's spawn position, issues one write of it and sends
\* 'Checkpoint saved!'.
C4_Refresh ==
    [][\A p \in Players :
          (TouchStep(p) /\ Resolved(p) = currentCheckpointIndex[p])
          => /\ currentCheckpointIndex'[p] = currentCheckpointIndex[p]
             /\ currentCheckpointPosition'[p] = SpawnAt(Resolved(p))
             /\ out'.writes = <<[checkpointPosition |-> SpawnAt(Resolved(p))]>>
             /\ out'.msgs = <<MsgSaved>>]_vars

\* the player has refreshed checkpoint 1
C4_Witness ==
    /\ out.handler = "collision"
    /\ out.from = 1
    /\ currentCheckpointIndex[out.player] = 1
    /\ currentCheckpointPosition[out.player] = SpawnAt(1)
    /\ out.writes = <<[checkpointPosition |-> SpawnAt(1)]>>
    /\ out.msgs = <<MsgSaved>>

\* C5: a begun collision with lava puts the player on
\* currentCheckpointPosition with zero velocity and changes neither the
\* index, the checkpoint position nor the persisted record (no write).
C5_Lava ==
    [][\A p \in Players :
          (/\ out'.handler = "collision"
           /\ out'.player = p
           /\ out'.id = LAVA_BLOCK_ID(variant)
           /\ out'.started)
          => /\ position'[p] = currentCheckpointPosition[p]
             /\ linearVelocity'[p] = ZeroVec
             /\ currentCheckpointIndex'[p] = currentCheckpointIndex[p]
             /\ currentCheckpointPosition'[p] = currentCheckpointPosition[p]
             /\ persisted' = persisted
             /\ out'.writes = <<>>]_vars

\* lava has been touched at index 1
C5_Witness ==
    /\ out.handler = "collision"
    /\ out.id = LAVA_BLOCK_ID(variant)
    /\ out.started
    /\ out.from = 1
    /\ position[out.player] = currentCheckpointPosition[out.player]
    /\ out.msgs = <<MsgLava>>

\* C6 (as claimed): after a position update below the fall threshold the
\* player is on currentCheckpointPosition with zero velocity.
C6_FallRecovery ==
    (/\ out.handler = "update"
     /\ out.pos.y < currentCheckpointPosition[out.player].y - Tenths(FALL_THRESHOLD))
    => /\ position[out.player] = currentCheckpointPosition[out.player]
       /\ linearVelocity[out.player] = ZeroVec

\* C7: a position update triggers the recovery if and only if its y is
\* strictly below currentCheckpointPosition.y - 50; with the checkpoint at
\* y = 10, updates at y = 50, -10 and -40 trigger none.
C7_FallThreshold ==
    [][\A p \in Players :
          (out'.handler = "update" /\ out'.player = p)
          => LET below == out'.pos.y < currentCheckpointPosition[p].y - 500
             IN  /\ below <=> out'.msgs = <<MsgFell>>
                 /\ below => position'[p] = currentCheckpointPosition[p]
                 /\ ~below => out'.msgs = <<>> /\ position'[p] = out'.pos
                 /\ (/\ currentCheckpointPosition[p].y = 100
                     /\ out'.pos.y \in {500, -100, -400})
                    => out'.msgs = <<>>
                 /\ (currentCheckpointPosition[p].y = 100 /\ out'.pos.y < -400)
                    => out'.msgs = <<MsgFell>>]_vars

\* with the checkpoint at y = 10 an update at exactly y = -40 has passed
\* without recovery
C7_Witness ==
    /\ out.handler = "update"
    /\ currentCheckpointPosition[out.player].y = 100
    /\ out.pos.y = -400
    /\ position[out.player] = out.pos
    /\ out.msgs = <<>>

\* C8 (as claimed): a join that loads the spawn position of checkpoint i
\* initialises currentCheckpointIndex to i.
C8_RoundTrip ==
    \A i \in 0..(Len(checkpointBlocks) - 1) :
        (/\ out.handler = "load"
         /\ persisted[out.player] = Saved(SpawnAt(i)))
        => currentCheckpointIndex[out.player] = i

\* b does not come before a: depth ascending, then lateral ascending
InOrder(a, b) == a.z < b.z \/ (a.z = b.z /\ a.x <= b.x)

\* C9: the built sequence is sorted by z ascending and, at equal z, by x
\* ascending; markers (0,0,0), (0,0,5), (3,0,5) get indices 0, 1, 2.
C9_Sorted ==
    built =>
        /\ \A i, j \in 1..Len(checkpointBlocks) :
              i < j => InOrder(checkpointBlocks[i], checkpointBlocks[j])
        /\ \A i, j \in 1..Len(checkpointBlockCoords) :
              i < j => InOrder(checkpointBlockCoords[i], checkpointBlockCoords[j])
        /\ Len(checkpointBlocks)
              = Len(SelectEntries(worldMap, ORANGE_CONCRETE_BLOCK_ID(variant)))
        /\ {worldMap[i] : i \in 1..Len(worldMap)}
              = {Marker(variant, 0, 0, 0), Marker(variant, 0, 0, 5),
                 Marker(variant, 3, 0, 5)}
           => checkpointBlocks = <<Spawn(0, 0, 0), Spawn(0, 0, 5), Spawn(3, 0, 5)>>

\* the three markers, enumerated from the last to the first, are built
C9_Witness ==
    /\ built
    /\ worldMap = <<Marker(variant, 3, 0, 5), Marker(variant, 0, 0, 5),
                    Marker(variant, 0, 0, 0)>>
    /\ checkpointBlocks = <<Spawn(0, 0, 0), Spawn(0, 0, 5), Spawn(3, 0, 5)>>

\* the enumerations of the entries of m
Enumerations(m) ==
    {q \in [1..Len(m) -> {m[i] : i \in 1..Len(m)}] : DistinctKeys(q)}

\* C10 (as claimed): every enumeration order of the map's entries yields
\* the same checkpoint sequence.
C10_OrderIndependent ==
    built => \A q \in Enumerations(worldMap) :
                BuildBlocks(variant, q) = checkpointBlocks

\* the join handler of p has just finished initialising the player
Loaded(p) == out.handler = "load" /\ out.player = p

\* C11: joining with a record whose checkpointPosition is missing or has a
\* missing or non-numeric coordinate initialises currentCheckpointIndex,
\* currentCheckpointPosition and the spawn position exactly as joining with
\* no record does, and the player is sent the welcome messages only.
C11_InvalidAsAbsent ==
    \A p \in Players :
        (Loaded(p) /\ persisted[p].kind \in {"noPosition", "nonNumeric"})
        => LET none == JoinState(variant, checkpointBlocks, Absent)
           IN  /\ currentCheckpointIndex[p] = none.idx
               /\ currentCheckpointPosition[p] = none.pos
               /\ position[p] = none.pos
               /\ spawned[p]
               /\ out.msgs = WelcomeMessages

\* a record without numeric coordinates whose remains point at the second
\* checkpoint has been loaded
C11_Witness ==
    /\ Loaded("p1")
    /\ Len(checkpointBlocks) >= 2
    /\ persisted["p1"] = Record("nonNumeric", SpawnAt(1))

\* the least horizontal distance (squared) from pos to a spawn position
NearestDistance(blocks, pos) ==
    CHOOSE d \in {Dist2D(pos, blocks[i]) : i \in 1..Len(blocks)} :
        \A i \in 1..Len(blocks) : d <= Dist2D(pos, blocks[i])

\* C12: extended variant, N >= 1: joining with a well-formed saved position
\* 5 or more (horizontally) from the nearest spawn position starts the player
\* at checkpoint 0; one less than 5 from it starts the player at that nearest
\* checkpoint, with currentCheckpointPosition its spawn position.
C12_SavedPosition ==
    \A p \in Players :
        (/\ Loaded(p)
         /\ variant = "extended"
         /\ Len(checkpointBlocks) >= 1
         /\ persisted[p].kind = "valid")
        => LET nearest == NearestDistance(checkpointBlocks, persisted[p].pos)
           IN  /\ currentCheckpointIndex[p] \in 0..(Len(checkpointBlocks) - 1)
               /\ currentCheckpointPosition[p] = SpawnAt(currentCheckpointIndex[p])
               /\ position[p] = currentCheckpointPosition[p]
               /\ IF nearest >= Sq(Tenths(5))
                  THEN currentCheckpointIndex[p] = 0
                  ELSE Dist2D(persisted[p].pos, currentCheckpointPosition[p])
                       = nearest

\* a position exactly 5 beside the second checkpoint has been loaded
C12_Witness ==
    /\ Loaded("p1")
    /\ variant = "extended"
    /\ Len(checkpointBlocks) >= 2
    /\ persisted["p1"] = Saved(Vec(SpawnAt(1).x + Tenths(5), SpawnAt(1).y,
                                   SpawnAt(1).z))
    /\ currentCheckpointIndex["p1"] = 0

\* ... and one 4.9 beside it
C12_WitnessNear ==
    /\ Loaded("p1")
    /\ variant = "extended"
    /\ Len(checkpointBlocks) >= 2
    /\ persisted["p1"] = Saved(Vec(SpawnAt(1).x + 49, SpawnAt(1).y, SpawnAt(1).z))
    /\ currentCheckpointIndex["p1"] = 1

\* C13: with an empty checkpoint sequence every joining player, with or
\* without a stored record, is initialised at the fallback spawn (0,10,0)
\* with currentCheckpointIndex 0.
C13_EmptySequence ==
    \A p \in Players :
        (Loaded(p) /\ Len(checkpointBlocks) = 0)
        => /\ currentCheckpointIndex[p] = 0
           /\ currentCheckpointPosition[p] = FallbackSpawn
           /\ position[p] = FallbackSpawn

\* the same of the extended variant alone
C13_EmptySequenceExtended == variant = "extended" => C13_EmptySequence

FailedWriteStep(p) ==
    /\ TouchStep(p)
    /\ out'.writes # <<>>
    /\ persisted'[p] # Saved(out'.writes[1].checkpointPosition)

OutOfRange(pos) ==
    \A i \in 1..Len(checkpointBlocks) :
        IF variant = "extended"
        THEN Sq(pos.x - (checkpointBlockCoords[i].x + 5))
             + Sq(pos.z - (checkpointBlockCoords[i].z + 5)) >= Sq(15)
        ELSE Dist3D(checkpointBlocks[i], pos) >= Sq(15)

\* the step is a run of p's collision handler that changes nothing and asks
\* nothing of the engine
SilentStep(p) ==
    /\ currentCheckpointIndex'[p] = currentCheckpointIndex[p]
    /\ currentCheckpointPosition'[p] = currentCheckpointPosition[p]
    /\ persisted' = persisted
    /\ position'[p] = position[p]
    /\ linearVelocity'[p] = linearVelocity[p]
    /\ out'.msgs = <<>> /\ out'.writes = <<>> /\ out'.ui = <<>> /\ out'.rot = <<>>

\* C16: a begun collision with a marker block while no checkpoint is within
\* touch range, and every collision event with started = false, is a silent
\* no-op: index, checkpoint position and stored record are unchanged, no
\* notification is sent and the player is not moved.
C16_SilentNoOp ==
    [][\A p \in Players :
          (/\ out'.handler = "collision" /\ out'.player = p
           /\ \/ ~out'.started
              \/ /\ out'.id = ORANGE_CONCRETE_BLOCK_ID(variant)
                 /\ OutOfRange(position[p]))
          => SilentStep(p)]_vars

\* a begun marker collision out of range of every checkpoint of a map that
\* has some
C16_Witness ==
    /\ out.handler = "collision" /\ out.player = "p1"
    /\ out.id = ORANGE_CONCRETE_BLOCK_ID(variant) /\ out.started
    /\ Len(checkpointBlocks) >= 1
    /\ OutOfRange(position["p1"])
    /\ out.msgs = <<>>

\* ... and the end of a lava collision
C16_WitnessEnded ==
    /\ out.handler = "collision" /\ out.player = "p1"
    /\ out.id = LAVA_BLOCK_ID(variant) /\ ~out.started
    /\ out.msgs = <<>>

\* C17: a progress-update payload carries stage = currentCheckpointIndex + 1
\* and a percentage within [0,100] (here in hundredths of a percent, rounded
\* down): 100 for N = 1; for N > 1, currentCheckpointIndex / (N-1) * 100,
\* which is 0 at index 0, exactly 100 at index N-1, and 66.66 for N = 4 at
\* index 2.
C17_ProgressPayload ==
    \A p \in Players :
        (out.player = p /\ out.ui # <<>>)
        => LET N == Len(checkpointBlocks)
               idx == currentCheckpointIndex[p]
               payload == out.ui[1]
           IN  /\ Len(out.ui) = 1
               /\ payload.type = "progress-update"
               /\ payload.stage = idx + 1
               /\ payload.percentage \in 0..10000
               /\ N = 1 => (idx = 0 /\ payload.percentage = 10000)
               /\ N > 1 =>
                      /\ payload.percentage * (N - 1) <= idx * 10000
                      /\ idx * 10000 < (payload.percentage + 1) * (N - 1)
                      /\ idx = 0 => payload.percentage = 0
                      /\ idx = N - 1 => payload.percentage = 10000
               /\ (N = 4 /\ idx = 2) => payload.percentage = 6666

\* the display of a player at the third of four checkpoints
C17_Witness ==
    /\ out.handler = "timer" /\ out.player = "p1"
    /\ Len(checkpointBlocks) = 4
    /\ currentCheckpointIndex["p1"] = 2
    /\ out.ui = <<[type |-> "progress-update", stage |-> 3, percentage |-> 6666]>>

\* C18: a handler run asks for a write of the stored record only on an
\* accepted touch (refresh or advance), and what it writes is the new
\* currentCheckpointPosition, the spawn position of a checkpoint of the
\* sequence; the stored record changes only by such a write, of its own
\* player, after which it equals currentCheckpointPosition.  No other run
\* (join, rejected or unresolved touch, lava, fall recovery, conveyor)
\* writes.
C18_WriteOnlyOnAccepted ==
    [][\A p \in Players :
          /\ (out'.player = p /\ out'.writes # <<>>)
             => /\ TouchStep(p)
                /\ Resolved(p) \in {currentCheckpointIndex[p],
                                     currentCheckpointIndex[p] + 1}
                /\ out'.writes =
                       <<[checkpointPosition |-> currentCheckpointPosition'[p]]>>
                /\ \E j \in 1..Len(checkpointBlocks) :
                       currentCheckpointPosition'[p] = checkpointBlocks[j]
          /\ persisted'[p] # persisted[p]
             => /\ out'.player = p /\ out'.writes # <<>>
                /\ persisted'[p] = Saved(currentCheckpointPosition'[p])]_vars

\* an advance to checkpoint 1 has been written to the store
C18_Witness ==
    /\ out.handler = "collision" /\ out.player = "p1"
    /\ out.writes # <<>>
    /\ out.from = 0
    /\ currentCheckpointIndex["p1"] = 1
    /\ persisted["p1"] = Saved(currentCheckpointPosition["p1"])

\* the step is a run of p's position-update handler on a position below the
\* fall threshold
FellStep(p) ==
    /\ out'.handler = "update" /\ out'.player = p
    /\ HasFallen(out'.pos, currentCheckpointPosition[p])

\* the step is the position update that follows a recovery of p, the entity
\* not having moved since
UpdateAfterRecovery(p) ==
    /\ out.handler = "update" /\ out.player = p /\ out.msgs = <<MsgFell>>
    /\ out'.handler = "update" /\ out'.player = p
    /\ out'.pos = position[p]

\* C19: fall recovery ends the falling condition in one step.  After a
\* position update that triggers recovery the player is at
\* currentCheckpointPosition, where the fall condition is false; the next
\* position update, the player not having moved, triggers no recovery and
\* no message; and recovering again gives the state recovered once.
C19_RecoveryEndsFall ==
    [][\A p \in Players :
          /\ FellStep(p)
             => /\ out'.msgs = <<MsgFell>>
                /\ position'[p] = currentCheckpointPosition'[p]
                /\ ~HasFallen(position'[p], currentCheckpointPosition'[p])
                /\ LET once == Respawn(currentCheckpointPosition[p],
                                       linearVelocity[p])
                   IN  Respawn(currentCheckpointPosition[p], once.linearVelocity)
                       = once
          /\ UpdateAfterRecovery(p)
             => /\ out'.msgs = <<>>
                /\ out'.rot = <<>>
                /\ position'[p] = position[p]]_vars

\* a recovery from 50.1 below the checkpoint position
C19_Witness ==
    /\ out.handler = "update" /\ out.player = "p1"
    /\ out.msgs = <<MsgFell>>
    /\ out.pos.y = currentCheckpointPosition["p1"].y - Tenths(FALL_THRESHOLD) - 1
    /\ position["p1"] = currentCheckpointPosition["p1"]

\* ... followed by a position update at the checkpoint position
C19_WitnessNext ==
    /\ out.handler = "update" /\ out.player = "p1"
    /\ out.msgs = <<>>
    /\ out.pos = currentCheckpointPosition["p1"]
    /\ position["p1"] = currentCheckpointPosition["p1"]

\* C20: in the extended variant, for every position of a player's entity,
\* the checkpoint the collision handler's touch detection resolves to (or
\* none) is the result of findCheckpointAtPosition for that position.
C20_OnePolicy ==
    \A p \in Players :
        (variant = "extended" /\ spawned[p])
        => TouchedCheckpointIndex(variant, checkpointBlockCoords,
                                  checkpointBlocks, position[p])
           = FindCheckpointAtPosition(variant, checkpointBlockCoords,
                                      checkpointBlocks, position[p])

\* pos is inside the box-and-band volume of the marker block at blockCoord:
\* within 0.5 of its centre in x and in z, and from its top to 2 above
InVolume(blockCoord, pos) ==
    LET blockTop == blockCoord.y + Tenths(1)
    IN  /\ Abs(pos.x - (blockCoord.x + 5)) < 5
        /\ Abs(pos.z - (blockCoord.z + 5)) < 5
        /\ blockTop <= pos.y
        /\ pos.y < blockTop + Tenths(2)

\* C21: extended findCheckpointAtPosition returns the lowest index whose
\* box-and-band volume (blockTop <= y < blockTop + 2) holds the position,
\* and null when none does.
C21_BoxAndBand ==
    out.handler = "findCheckpointAtPosition"
    => LET inside == {i \in 0..(Len(checkpointBlockCoords) - 1) :
                        InVolume(checkpointBlockCoords[i + 1], out.pos)}
       IN  IF inside = {} THEN out.result = NoCheckpoint
           ELSE /\ out.result \in inside
                /\ \A i \in inside : out.result <= i

\* C22: a begun marker collision while the player is exactly at the spawn
\* position of checkpoint j resolves to checkpoint j, in both variants.
C22_OwnSpawn ==
    \A p \in Players : \A j \in 0..(Len(checkpointBlocks) - 1) :
        (/\ out.handler = "collision" /\ out.player = p
         /\ out.id = ORANGE_CONCRETE_BLOCK_ID(variant) /\ out.started
         /\ position[p] = SpawnAt(j))
        => Resolved(p) = j

\* the same of each variant alone
C22_OwnSpawnExtended == variant = "extended" => C22_OwnSpawn
C22_OwnSpawnBase == variant = "base" => C22_OwnSpawn

\* C23: once a player has left and the join handler has finished, no entity
\* of that player is spawned in the world (so no handler of that player can
\* run later), whatever the order of joining, load completion and leaving.
C23_NoEntityAfterLeave ==
    \A p \in Players :
        (~connected[p] /\ joinpc[p] # "awaiting") => ~spawned[p]

\* p's entity exists and p's progression state is that of a checkpoint:
\* the index is within the sequence and the position is its spawn position
AtCheckpoint(p) ==
    /\ currentCheckpointIndex[p] \in 0..(Len(checkpointBlocks) - 1)
    /\ currentCheckpointPosition[p] = SpawnAt(currentCheckpointIndex[p])

\* C24: extended variant, N >= 1: in every state after the join,
\* 0 <= currentCheckpointIndex <= N-1 and currentCheckpointPosition is the
\* spawn position of checkpoint currentCheckpointIndex.
C24_IndexAndPositionExtended ==
    \A p \in Players :
        (variant = "extended" /\ Len(checkpointBlocks) >= 1 /\ spawned[p])
        => AtCheckpoint(p)

\* after an advance to checkpoint 1 of the extended variant
C24_Witness ==
    /\ variant = "extended"
    /\ out.handler = "collision" /\ out.player = "p1"
    /\ out.from = 0
    /\ currentCheckpointIndex["p1"] = 1
    /\ currentCheckpointPosition["p1"] = SpawnAt(1)
    /\ spawned["p1"]

\* C25: base variant, N >= 1: in every state after the join,
\* 0 <= currentCheckpointIndex <= N-1 and currentCheckpointPosition is the
\* spawn position of checkpoint currentCheckpointIndex; a player who joins
\* with no stored record starts at checkpoint 0.
C25_IndexAndPositionBase ==
    \A p \in Players :
        (variant = "base" /\ Len(checkpointBlocks) >= 1 /\ spawned[p])
        => /\ AtCheckpoint(p)
           /\ (Loaded(p) /\ persisted[p] = Absent)
              => currentCheckpointIndex[p] = 0

\* the latest handler run of p spawned or respawned p's entity
Placed(p) ==
    /\ out.player = p
    /\ \/ out.handler = "load"
       \/ out.handler = "collision" /\ out.id = LAVA_BLOCK_ID(variant)
          /\ out.started
       \/ out.handler = "update" /\ out.msgs = <<MsgFell>>

\* C26: extended variant: the facing target at spawn and at every respawn
\* is checkpoint currentCheckpointIndex + 1 when the index is below N-1,
\* else checkpoint currentCheckpointIndex - 1 when the index is above 0,
\* else none; it follows the current index, and is never the player's own
\* checkpoint.
C26_FacingTarget ==
    \A p \in Players :
        (variant = "extended" /\ Placed(p))
        => LET idx == currentCheckpointIndex[p]
               N == Len(checkpointBlocks)
           IN  /\ idx < N - 1 => out.rot = <<SpawnAt(idx + 1)>>
               /\ (idx >= N - 1 /\ idx > 0) => out.rot = <<SpawnAt(idx - 1)>>
               /\ (idx >= N - 1 /\ idx <= 0) => out.rot = <<>>
               /\ out.rot # <<>>
                  => out.rot[1] # currentCheckpointPosition[p]

\* a lava respawn at checkpoint 1 of 3, reached by an advance, faces
\* checkpoint 2
C26_Witness ==
    /\ variant = "extended"
    /\ out.handler = "collision" /\ out.player = "p1"
    /\ out.id = LAVA_BLOCK_ID(variant) /\ out.started
    /\ Len(checkpointBlocks) = 3
    /\ currentCheckpointIndex["p1"] = 1
    /\ out.rot = <<SpawnAt(2)>>

\* C27: players are isolated.  A handler run of player A changes neither
\* B's currentCheckpointIndex, currentCheckpointPosition, entity (its
\* existence, position, velocity) nor B's stored record, for every other
\* player B, and no step changes the checkpoint sequence once built.
C27_Isolation ==
    [][/\ \A A \in Players : \A B \in Players \ {A} :
            out'.player = A
            => /\ currentCheckpointIndex'[B] = currentCheckpointIndex[B]
               /\ currentCheckpointPosition'[B] = currentCheckpointPosition[B]
               /\ position'[B] = position[B]
               /\ linearVelocity'[B] = linearVelocity[B]
               /\ spawned'[B] = spawned[B]
               /\ persisted'[B] = persisted[B]
       /\ built => mapVars' = mapVars]_vars

\* p1 leaves while p2 is in play at checkpoint 1
C27_Witness ==
    /\ out.handler = "left" /\ out.player = "p1"
    /\ spawned["p2"]
    /\ currentCheckpointIndex["p2"] = 1
    /\ persisted["p2"] = Saved(SpawnAt(1))

\* ... and p1 advances while p2 is in play at checkpoint 0
C27_WitnessTouch ==
    /\ out.handler = "collision" /\ out.player = "p1" /\ out.writes # <<>>
    /\ currentCheckpointIndex["p1"] = 1
    /\ spawned["p2"]
    /\ currentCheckpointIndex["p2"] = 0

\* the built arrays as the pairs the scripts sort (base: the spawn positions
\* alone)
BuiltPairs ==
    [i \in 1..Len(checkpointBlocks) |->
        [blockCoord |-> IF variant = "extended" THEN checkpointBlockCoords[i]
                        ELSE checkpointBlocks[i],
         spawnPos |-> checkpointBlocks[i]]]

\* C28: sorting the built checkpoint sequence again with the comparator
\* returns it unchanged; the sequence holds each marker of the map once, so
\* no two checkpoints share an index; and in the extended variant the
\* spawn position at index i is the block coordinate at i plus (0,1,0) and
\* the coordinate-to-index lookup maps that coordinate to i and to nothing
\* else.
C28_SortIdempotent ==
    built
    => /\ SortPairs(variant, BuiltPairs) = BuiltPairs
       /\ Len(checkpointBlocks)
          = Len(SelectEntries(worldMap, ORANGE_CONCRETE_BLOCK_ID(variant)))
       /\ \A i, j \in 1..Len(checkpointBlocks) :
             i # j => checkpointBlocks[i] # checkpointBlocks[j]
       /\ variant = "extended"
          => /\ Len(checkpointBlockCoords) = Len(checkpointBlocks)
             /\ Cardinality(checkpointCoordToIndex) = Len(checkpointBlocks)
             /\ \A i \in 1..Len(checkpointBlocks) :
                   /\ checkpointBlocks[i] = SpawnOf(checkpointBlockCoords[i])
                   /\ <<CoordKey(checkpointBlockCoords[i]), i - 1>>
                         \in checkpointCoordToIndex
                   /\ \A e \in checkpointCoordToIndex :
                         e[1] = CoordKey(checkpointBlockCoords[i]) => e[2] = i - 1

\* a built extended sequence of three checkpoints, two of them equal under
\* the comparator (one above the other)
C28_Witness ==
    /\ built
    /\ variant = "extended"
    /\ Len(checkpointBlocks) = 3
    /\ \E i \in 1..2 :
          Compare(checkpointBlockCoords[i], checkpointBlockCoords[i + 1]) = 0

====
